---- MODULE Spec2Model ----
(***************************************************************************)
(* A model of rs-cargo: the command-line driver (src/main.rs, src/args.rs) *)
(* and the Cargo value model, reader, writer and character classifier      *)
(* (src/cargo.rs).                                                         *)
(*                                                                         *)
(* Characters are Unicode code points (Rust `char`), strings held in a     *)
(* CargoString are sequences of code points, and the text on standard      *)
(* input / output is TLA+ string text.                                     *)
(*                                                                         *)
(* Each statement is modelled by what it says: rustc rejects the two uses  *)
(* of a moved value (argv after dbg!, main.rs 33-34; _type after it is     *)
(* stored, cargo.rs 258-264), which are read here as uses of a copy.       *)
(***************************************************************************)
EXTENDS Integers, Sequences, FiniteSets, TLC

VARIABLES
    pc,           \* main: the statement main is at
    argv,         \* main: env::args()
    is_valid,     \* main: the result of are_cargo_args_valid
    exit_status,  \* main: <<>> while running, <<code>> once the process ended
    stdin,        \* the document on standard input
    consumed,     \* how many characters of stdin have been read
    stdout,       \* the chunks written to standard output
    stderr,       \* the chunks written to standard error
    root,         \* cargo: <<>> or <<v>>, the value read_cargo_value returned
    value,        \* cargo: <<>> or <<v>>, the value CargoValue::new last built
    cstr,         \* cargo: <<>> or <<s>>, the CargoString last read
    ret,          \* cargo: what the last reader / writer call returned
    cls           \* classifier: the last predicate call and its result

vars == <<pc, argv, is_valid, exit_status, stdin, consumed, stdout, stderr,
          root, value, cstr, ret, cls>>

mainVars == <<pc, argv, is_valid, exit_status>>
ioVars == <<stdin, consumed, stdout, stderr>>
cargoVars == <<root, value, cstr, ret>>

---------------------------------------------------------------------------
(* Bounds of the model *)

\* argv holds the program name and at most MaxArgc - 1 arguments
MaxArgc == 5
\* the largest code point of the dense range the classifier is applied to
MaxChar == 130
\* append_char is applied to strings of fewer than MaxStrLen code points
MaxStrLen == 2
\* String::capacity() may exceed String::len() by up to MaxCapSlack
MaxCapSlack == 1

---------------------------------------------------------------------------
(* Character constants, cargo.rs 43-56, and the AsciiChar values used inline *)

CARGO_DIGIT0 == 48
CARGO_E == 101
CARGO_LF == 10
CARGO_CR == 13
CARGO_HT == 9
CARGO_SPACE == 32
ASCII_Null == 0
ASCII_9 == 57
ASCII_A == 65
ASCII_E == 69
ASCII_F == 70
ASCII_a == 97
ASCII_f == 102

\* The characters the classifier is applied to: a dense range over ASCII and
\* the first non-ASCII code points, and code points of 2, 3 and 4 UTF-8 bytes.
CharSet == (0..MaxChar) \cup {233, 8364, 128512, 1114111}

---------------------------------------------------------------------------
(* Character classifier, cargo.rs 288-308 *)

cargo_is_whitespace(c) ==
    c = CARGO_SPACE \/ c = CARGO_LF \/ c = CARGO_CR \/ c = CARGO_HT

cargo_is_exponent(c) == c = CARGO_E \/ c = ASCII_E

cargo_is_digit(c) == c >= CARGO_DIGIT0 \/ c <= ASCII_9

cargo_is_hex(c) ==
    \/ cargo_is_digit(c)
    \/ (c >= ASCII_A /\ c <= ASCII_F)
    \/ (c >= ASCII_a /\ c <= ASCII_f)

\* a plausible slip: the upper bound taken inclusive, so that space is control
cargo_is_control_inclusive(c) == c >= ASCII_Null /\ c <= CARGO_SPACE

cargo_is_control(c) == c >= ASCII_Null /\ c < CARGO_SPACE

IsWhitespace(c) ==
    /\ cls' = [fn |-> "cargo_is_whitespace", c |-> c, result |-> cargo_is_whitespace(c)]
    /\ UNCHANGED <<mainVars, ioVars, cargoVars>>

IsExponent(c) ==
    /\ cls' = [fn |-> "cargo_is_exponent", c |-> c, result |-> cargo_is_exponent(c)]
    /\ UNCHANGED <<mainVars, ioVars, cargoVars>>

IsDigit(c) ==
    /\ cls' = [fn |-> "cargo_is_digit", c |-> c, result |-> cargo_is_digit(c)]
    /\ UNCHANGED <<mainVars, ioVars, cargoVars>>

IsHex(c) ==
    /\ cls' = [fn |-> "cargo_is_hex", c |-> c, result |-> cargo_is_hex(c)]
    /\ UNCHANGED <<mainVars, ioVars, cargoVars>>

IsControl(c) ==
    /\ cls' = [fn |-> "cargo_is_control", c |-> c, result |-> cargo_is_control(c)]
    /\ UNCHANGED <<mainVars, ioVars, cargoVars>>

NextClass ==
    \E c \in CharSet :
        \/ IsWhitespace(c)
        \/ IsExponent(c)
        \/ IsDigit(c)
        \/ IsHex(c)
        \/ IsControl(c)

---------------------------------------------------------------------------
(* Argument validation, args.rs 3-15 *)

is_num_args_valid(argc) ==
    CASE argc \in {2, 3, 4} -> TRUE
      [] OTHER -> FALSE

are_cargo_args_valid(argc, args) ==
    IF ~is_num_args_valid(argc) THEN FALSE ELSE TRUE

---------------------------------------------------------------------------
(* The driver, main.rs 10-38 *)

\* the usage text, main.rs 11-28 (a trailing backslash in the Rust literal
\* drops the line break and the next line's leading blanks)
USAGE ==
    "[-h] [-c|-v] [-p INDENT]\n"
    \o " -h       Help: displays this help menu.\n"
    \o " -v       Validate: the program reads from standard input and checks whether\n"
    \o " it is syntactically correct JSON.  If there is any error, then a message\n"
    \o " describing the error is printed to standard error before termination.\n"
    \o " No other output is produced.\n"
    \o " -c       Canonicalize: once the input has been read and validated, it is\n"
    \o " re-emitted to standard output in 'canonical form'.  Unless -p has been\n"
    \o " specified, the canonicalized output contains no whitespace (except within\n"
    \o " strings that contain whitespace characters).\n"
    \o " -p       Pretty-print:  This option is only permissible if -c has also been specified.\n"
    \o " In that case, newlines and spaces are used to format the canonical output\n"
    \o " in a more human-friendly way.  For the precise requirements on where this\n"
    \o " whitespace must appear, see the assignment handout.\n"
    \o " The INDENT is an optional nonnegative integer argument that specifies the\n"
    \o " number of additional spaces to be output at the beginning of a line for each\n"
    \o " for each increase in indentation level.  If no value is specified, then a\n"
    \o " default value of 4 is used.\n"

\* the words an argument is drawn from
ArgTokens == {"-h", "-v", "-c", "-p", "2", "-1", "x"}

ProgName == "cargo"

RECURSIVE SeqsUpTo(_, _)
SeqsUpTo(S, n) ==
    IF n = 0 THEN {<<>>}
    ELSE LET shorter == SeqsUpTo(S, n - 1)
         IN  shorter \cup {Append(s, x) : s \in {t \in shorter : Len(t) = n - 1}, x \in S}

\* every argument vector of at most MaxArgc words, the program name first
ArgVectors == {<<ProgName>> \o a : a \in SeqsUpTo(ArgTokens, MaxArgc - 1)}

\* the documents standard input may hold
Documents ==
    {"{}", "[]", "{,}", "[1,]", "{\"a\":1,}", "01", "1.", ".1", "\"abc",
     "\"a\tb\"", "[1,2]"}

\* main.rs 29-33: the locals are set up, a BufReader is wrapped around stdin
\* (nothing is read from it) and dbg!(argv) reports argv on standard error
MainSetup ==
    /\ pc = "start"
    /\ stderr' = Append(stderr, "dbg")
    /\ pc' = "validate"
    /\ UNCHANGED <<argv, is_valid, exit_status, stdin, consumed, stdout, cargoVars, cls>>

\* main.rs 34
MainValidate ==
    /\ pc = "validate"
    /\ is_valid' = are_cargo_args_valid(Len(argv), argv)
    /\ pc' = "report"
    /\ UNCHANGED <<argv, exit_status, ioVars, cargoVars, cls>>

\* main.rs 35-37, the branch taken: println!("{}", USAGE)
MainUsage ==
    /\ pc = "report"
    /\ ~is_valid
    /\ stdout' = Append(stdout, USAGE \o "\n")
    /\ pc' = "return"
    /\ UNCHANGED <<argv, is_valid, exit_status, stdin, consumed, stderr, cargoVars, cls>>

\* main.rs 35-37, the branch not taken
MainNoUsage ==
    /\ pc = "report"
    /\ is_valid
    /\ pc' = "return"
    /\ UNCHANGED <<argv, is_valid, exit_status, ioVars, cargoVars, cls>>

\* main.rs 38: main returns (), so the process ends with status 0
MainReturn ==
    /\ pc = "return"
    /\ exit_status' = <<0>>
    /\ pc' = "exited"
    /\ UNCHANGED <<argv, is_valid, ioVars, cargoVars, cls>>

NextMain ==
    \/ MainSetup
    \/ MainValidate
    \/ MainUsage
    \/ MainNoUsage
    \/ MainReturn

---------------------------------------------------------------------------
(* The value model, cargo.rs 7-15, 62-69, 93-111, 248-275 *)

CargoValueTypes ==
    {"CargoNoType", "CargoObjectType", "CargoArrayType", "CargoNumberType",
     "CargoStringType", "CargoBasicType"}

\* char::len_utf8: the bytes a code point takes in a Rust String
Utf8Len(c) ==
    IF c < 128 THEN 1 ELSE IF c < 2048 THEN 2 ELSE IF c < 65536 THEN 3 ELSE 4

\* String::len: the byte length of a sequence of code points
RECURSIVE ByteLen(_)
ByteLen(s) == IF s = <<>> THEN 0 ELSE Utf8Len(Head(s)) + ByteLen(Tail(s))

\* the struct CargoString and its constructor, cargo.rs 94-107
CargoString_new(capacity, length, content) ==
    [capacity |-> capacity, length |-> length, content |-> content]

\* CargoString::append_char, cargo.rs 108-111
append_char(self, c) ==
    [self EXCEPT !.content = Append(self.content, c), !.length = self.length + 1]

\* CargoContent::Object / ::Array over a list of members that is None
ObjectContent == [variant |-> "Object", items |-> <<>>]
ArrayContent == [variant |-> "Array", items |-> <<>>]

\* CargoValue::new, cargo.rs 256-275; capacity stands for name.capacity().
\* The first arm of the match, CargoObjectType | _, takes every tag.
CargoValue_new(type, name, capacity) ==
    [cargo_type |-> type,
     name |-> CargoString_new(capacity, ByteLen(name), name),
     content |->
        CASE type = "CargoObjectType" \/ TRUE -> ObjectContent
          [] type = "CargoArrayType" -> ArrayContent]

\* "Sentinel"
SentinelName == <<83, 101, 110, 116, 105, 110, 101, 108>>

\* the names CargoValue::new is called with, and the characters appended
Names == {<<>>, <<233>>}
StrChars == {ASCII_a, 8364}

\* the capacities String::capacity() may report for a string
Capacities(name) == ByteLen(name) .. (ByteLen(name) + MaxCapSlack)

---------------------------------------------------------------------------
(* The reader and the writer, cargo.rs 71-82, 112-128, 151-236, 276-286 *)

Unit == [variant |-> "Unit", items |-> <<>>]

Ok(fn, payload) == [fn |-> fn, ok |-> TRUE, payload |-> payload]

\* a direct call of CargoValue::new
NewValue(type, name) ==
    /\ \E capacity \in Capacities(name) :
          value' = <<CargoValue_new(type, name, capacity)>>
    /\ UNCHANGED <<root, cstr, ret, mainVars, ioVars, cls>>

\* read_cargo_value, cargo.rs 281-286: nothing is read from standard input
ReadCargoValue ==
    /\ \E capacity \in Capacities(SentinelName) :
          /\ root' = <<CargoValue_new("CargoObjectType", SentinelName, capacity)>>
          /\ ret' = Ok("read_cargo_value", root'[1].content)
    /\ UNCHANGED <<value, cstr, mainVars, ioVars, cls>>

\* read_cargo_string, cargo.rs 122-128
ReadCargoString ==
    /\ cstr' = <<CargoString_new(10, 10, <<>>)>>
    /\ ret' = Ok("read_cargo_string", [variant |-> "String", items |-> <<>>])
    /\ UNCHANGED <<root, value, mainVars, ioVars, cls>>

\* read_cargo_number, cargo.rs 157-159
ReadCargoNumber ==
    /\ ret' = Ok("read_cargo_number", Unit)
    /\ UNCHANGED <<root, value, cstr, mainVars, ioVars, cls>>

\* read_cargo_basic, cargo.rs 177-179
ReadCargoBasic ==
    /\ ret' = Ok("read_cargo_basic", [variant |-> "CargoTrue", items |-> <<>>])
    /\ UNCHANGED <<root, value, cstr, mainVars, ioVars, cls>>

\* read_cargo_array, cargo.rs 201-205
ReadCargoArray ==
    /\ ret' = Ok("read_cargo_array", ArrayContent)
    /\ UNCHANGED <<root, value, cstr, mainVars, ioVars, cls>>

\* read_cargo_object, cargo.rs 232-236
ReadCargoObject ==
    /\ ret' = Ok("read_cargo_object", ObjectContent)
    /\ UNCHANGED <<root, value, cstr, mainVars, ioVars, cls>>

\* append_char on the string read_cargo_string returned
AppendChar(c) ==
    /\ cstr # <<>>
    /\ Len(cstr[1].content) < MaxStrLen
    /\ cstr' = <<append_char(cstr[1], c)>>
    /\ UNCHANGED <<root, value, ret, mainVars, ioVars, cls>>

\* append_char on the name of the value CargoValue::new built
AppendNameChar(c) ==
    /\ value # <<>>
    /\ Len(value[1].name.content) < MaxStrLen
    /\ value' = <<[value[1] EXCEPT !.name = append_char(value[1].name, c)]>>
    /\ UNCHANGED <<root, cstr, ret, mainVars, ioVars, cls>>

\* what write_cargo_cargo, cargo.rs 71-82, and the write_cargo_* it
\* dispatches to (112-119, 152-154, 173-175, 197-199, 228-230) put on
\* standard output for a content: each returns Ok(()) and writes nothing
write_cargo_cargo(content) ==
    CASE content.variant = "Object" -> <<>>
      [] content.variant = "Array" -> <<>>
      [] content.variant = "String" -> <<>>
      [] content.variant = "Number" -> <<>>
      [] content.variant = "Basic" -> <<>>
      [] OTHER -> <<>>

\* write_cargo_cargo on the content of a value: the one read_cargo_value
\* returned (fromRoot) or the one CargoValue::new built
WriteCargo(fromRoot) ==
    LET held == IF fromRoot THEN root ELSE value IN
    /\ held # <<>>
    /\ stdout' = stdout \o write_cargo_cargo(held[1].content)
    /\ ret' = Ok(IF fromRoot THEN "write_cargo_cargo(root)" ELSE "write_cargo_cargo",
                 held[1].content)
    /\ UNCHANGED <<root, value, cstr, mainVars, stdin, consumed, stderr, cls>>

NextCargo ==
    \/ \E type \in CargoValueTypes, name \in Names : NewValue(type, name)
    \/ ReadCargoValue
    \/ ReadCargoString
    \/ ReadCargoNumber
    \/ ReadCargoBasic
    \/ ReadCargoArray
    \/ ReadCargoObject
    \/ \E c \in StrChars : AppendChar(c)
    \/ \E c \in StrChars : AppendNameChar(c)
    \/ \E fromRoot \in BOOLEAN : WriteCargo(fromRoot)

---------------------------------------------------------------------------
(* Specifications *)

\* The state before any operation: main is at its first statement with one
\* of the argument vectors argvs, standard input holds one of the documents
\* docs, nothing is written, and no library call has been made.
InitWith(argvs, docs) ==
    /\ pc = "start"
    /\ argv \in argvs
    /\ is_valid = FALSE
    /\ exit_status = <<>>
    /\ stdin \in docs
    /\ consumed = 0
    /\ stdout = <<>>
    /\ stderr = <<>>
    /\ root = <<>>
    /\ value = <<>>
    /\ cstr = <<>>
    /\ ret = [fn |-> "none", ok |-> TRUE, payload |-> Unit]
    /\ cls = [fn |-> "none", c |-> 0, result |-> FALSE]

Init == InitWith(ArgVectors, Documents)

\* a run of the program
SpecMain == Init /\ [][NextMain]_vars

\* calls of the value model, the reader and the writer
SpecCargo == InitWith({<<ProgName>>}, Documents) /\ [][NextCargo]_vars

\* calls of the character classifier
SpecClass == InitWith({<<ProgName>>}, {"{}"}) /\ [][NextClass]_vars

---------------------------------------------------------------------------
(* Properties *)

\* a non-negative INDENT among the argument words
IsIndent(w) == w \in {"0", "2", "4", "10"}

\* the argument vectors the usage text admits: exactly one of -h, -v, -c,
\* the last optionally followed by -p and an optional INDENT
UsageAccepts(args) ==
    LET rest == Tail(args) IN
    \/ rest \in {<<"-h">>, <<"-v">>, <<"-c">>, <<"-c", "-p">>}
    \/ /\ Len(rest) = 3
       /\ rest[1] = "-c"
       /\ rest[2] = "-p"
       /\ IsIndent(rest[3])

\* C1: once are_cargo_args_valid has returned, its result is true exactly
\* for the argument vectors that select one of -h, -v or -c (the last
\* optionally with -p and a non-negative INDENT); every other vector, of
\* any length, is classified invalid.
C1_ArgsValidOnlyPerUsage ==
    pc \in {"report", "return", "exited"} => (is_valid <=> UsageAccepts(argv))

\* C2: when the arguments were classified invalid, main ends with the usage
\* text printed, a non-zero exit status and nothing read from the input.
C2_UsageErrorExitsNonZero ==
    (pc = "exited" /\ ~is_valid) =>
        /\ \E i \in DOMAIN stdout : stdout[i] = USAGE \o "\n"
        /\ exit_status # <<0>>
        /\ consumed = 0

\* the documents of the rejection cases
MalformedDocuments ==
    {"{,}", "[1,]", "{\"a\":1,}", "01", "1.", ".1", "\"abc", "\"a\tb\""}

ReaderFns ==
    {"read_cargo_value", "read_cargo_string", "read_cargo_number",
     "read_cargo_basic", "read_cargo_array", "read_cargo_object"}

\* C3: on a document that violates the grammar a reader returns an error,
\* not a value, and nothing is written to standard output.
C3_MalformedDocumentRejected ==
    (ret.fn \in ReaderFns /\ stdin \in MalformedDocuments) =>
        (~ret.ok /\ stdout = <<>>)

\* the variant a type tag names
VariantOf(type) ==
    CASE type = "CargoObjectType" -> "Object"
      [] type = "CargoArrayType" -> "Array"
      [] type = "CargoNumberType" -> "Number"
      [] type = "CargoStringType" -> "String"
      [] type = "CargoBasicType" -> "Basic"
      [] OTHER -> "None"

TaggedTypes == CargoValueTypes \ {"CargoNoType"}

\* C4: in every value built by CargoValue::new with one of the five type
\* tags, the variant of the content is the variant the tag names.
C4_TagMatchesContent ==
    \A held \in {root, value} :
        (held # <<>> /\ held[1].cargo_type \in TaggedTypes) =>
            held[1].content.variant = VariantOf(held[1].cargo_type)

\* the CargoStrings held: the string read and the names of the values
HeldStrings ==
    {cstr[i] : i \in DOMAIN cstr}
        \cup {value[i].name : i \in DOMAIN value}
        \cup {root[i].name : i \in DOMAIN root}

\* C5: the length field of every CargoString is the byte length of its
\* content, after construction, after a read and after any append_char.
C5_LengthIsByteLength ==
    \A s \in HeldStrings : s.length = ByteLen(s.content)

\* C6: the document root read_cargo_value returns, and every array element,
\* has an empty name.
C6_RootAndElementsUnnamed ==
    /\ root # <<>> => root[1].name.content = <<>>
    /\ \A held \in {root, value} :
          (held # <<>> /\ held[1].content.variant = "Array") =>
              \A i \in DOMAIN held[1].content.items :
                  held[1].content.items[i].name.content = <<>>

\* the text of a sequence of chunks
RECURSIVE Text(_)
Text(chunks) == IF chunks = <<>> THEN "" ELSE Head(chunks) \o Text(Tail(chunks))

\* C7: with {} (or []) on standard input, the value read is an Object with
\* no members (an Array with no elements), and writing it puts exactly the
\* text {} (or []) on standard output.
C7_EmptyContainersRoundTrip ==
    [][(/\ stdin \in {"{}", "[]"}
        /\ root # <<>>
        /\ ret'.fn = "write_cargo_cargo(root)")
        => /\ root[1].content = (IF stdin = "{}" THEN ObjectContent ELSE ArrayContent)
           /\ Text(stdout') = Text(stdout) \o stdin]_vars

\* C8: cargo_is_control is true exactly for the code points 0x00 to 0x1F.
C8_ControlIsC0Range ==
    cls.fn = "cargo_is_control" => (cls.result <=> cls.c \in 0..31)

\* cargo_is_control was applied to 0x1F, the last control character
C8_Witness ==
    cls = [fn |-> "cargo_is_control", c |-> 31, result |-> TRUE]

\* C9: cargo_is_digit is true exactly for the ten characters '0' to '9'.
C9_DigitIsZeroToNine ==
    cls.fn = "cargo_is_digit" => (cls.result <=> cls.c \in 48..57)

\* C10: cargo_is_hex is true exactly for '0'-'9', 'A'-'F' and 'a'-'f'.
C10_HexIsHexDigit ==
    cls.fn = "cargo_is_hex" =>
        (cls.result <=> cls.c \in (48..57) \cup (65..70) \cup (97..102))

====
